---------------------------- MODULE Spec2Model ----------------------------
(***************************************************************************)
(* A model of src/src/lib.rs: the single-slot WakerQueue and the           *)
(* SendWakers / SyncWakers containers around it.                           *)
(*                                                                         *)
(* Every call is a frame on its thread's call stack and advances one       *)
(* statement of the source at a time, so that the states in the middle of  *)
(* pend (after take(), during the evicted waker's wake(), before the       *)
(* store) exist in the model.  An Option<Waker> is the sequence of its     *)
(* elements: None is <<>> and Some(h) is <<h>>, which is also how the      *)
(* source iterates it (for w in &self.waker).                              *)
(***************************************************************************)
EXTENDS Naturals, Sequences, FiniteSets

\* ------------------------------------------------------------- bounds
NumWaiters == 2     \* distinct tasks (data pointer, vtable) a Waker can target
NumTags == 2        \* distinct Waker objects per task
NumThreads == 2     \* threads sharing one SyncWakers
MaxCalls == 5       \* calls the one owner makes in one behaviour
MaxSyncCalls == 3   \* calls the threads make on a SyncWakers in one behaviour
MaxFairCalls == 2   \* calls made in one behaviour under fair scheduling
MaxRaceCalls == 2   \* calls the threads make on a shared SendWakers

Waiters == 1..NumWaiters
Tags == 1..NumTags
Threads == 1..NumThreads
Owner == 1

\* A Waker: the task it wakes, and which Waker object for that task it is.
\* The first task has every tag, the others one: enough for two Wakers of
\* one task to meet in the slot, and for Wakers of different tasks to.
Handles == {h \in [waiter : Waiters, tag : Tags] : h.waiter = 1 \/ h.tag = 1}

None == <<>>
Some(h) == <<h>>

VARIABLES
    waker,      \* WakerQueue.waker : Option<Waker>
    lock,       \* SyncWakers.wakers : the Mutex's holder, None when free
    poisoned,   \* the Mutex's poison flag
    stack,      \* per thread, the frames of the calls in progress
    woken,      \* per handle, the wake() and wake_by_ref() invocations so far
    ncalls,     \* calls started so far
    stored,     \* history: per handle, how often pend stored a clone of it
    lastPend,   \* history: the argument of the last pend that returned with
                \*          no wake() started since
    run,        \* history: the last completed call, how often it was repeated
                \*          in a row, the state before the first of them, and
                \*          all the owner's completed calls in order
    lin         \* history: the state after the SyncWakers calls so far,
                \*          each executed as a whole in lock order

vars == <<waker, lock, poisoned, stack, woken, ncalls, stored, lastPend, run, lin>>

\* ------------------------------------------------------------- the Waker
\* Waker::will_wake: both wake the same task.
will_wake(a, b) == a.waiter = b.waiter

\* Waker::clone: a Waker for the same task, standing for the same object.
Clone(h) == [waiter |-> h.waiter, tag |-> h.tag]

NoWakes == [h \in Handles |-> [val |-> 0, ref |-> 0]]

\* w.wake() on each element of the Option w (at most one).
WakeByValue(wk, w) ==
    [h \in Handles |->
        IF w # None /\ h = w[1] THEN [wk[h] EXCEPT !.val = @ + 1] ELSE wk[h]]

\* w.wake_by_ref() on each element of the Option w (at most one).
WakeByRef(wk, w) ==
    [h \in Handles |->
        IF w # None /\ h = w[1] THEN [wk[h] EXCEPT !.ref = @ + 1] ELSE wk[h]]

Snapshot == [waker |-> waker, woken |-> woken]


\* ------------------------------------------------- whole calls, one at a time
\* WakerQueue::pend run from state s to its end; outcome "panic" when the
\* evicted waker's wake() unwinds out of it.
PendWhole(s, h, outcome) ==
    IF s.waker # None /\ will_wake(s.waker[1], h)
    THEN s
    ELSE [waker |-> IF s.waker # None /\ outcome = "panic"
                    THEN None ELSE Some(Clone(h)),
          woken |-> WakeByValue(s.woken, s.waker)]

\* WakerQueue::wake run from state s to its end.
WakeWhole(s) == [waker |-> None, woken |-> WakeByValue(s.woken, s.waker)]

\* WakerQueue::wake_by_ref run from state s to its end.
WakeByRefWhole(s) == [waker |-> s.waker, woken |-> WakeByRef(s.woken, s.waker)]

\* ------------------------------------------------------------- frames
QueueOps == {"pend", "wake", "wake_by_ref"}
SyncOps == {"sync_pend_by_ref", "sync_wake_by_ref"}
SendOps == {"send_pend_by_ref", "send_wake_by_ref"}
\* WakersMut of the containers: through get_mut(), on an exclusive borrow.
SendMutOps == {"send_pend", "send_wake"}
SyncMutOps == {"sync_pend", "sync_wake"}
\* `X::new(store).into_inner()`
RoundTripOps == {"send_round_trip", "sync_round_trip"}

\* The method of the inner store a call runs.
BodyOf(op) ==
    CASE op = "pend" -> "pend"
      [] op = "wake" -> "wake"
      [] op = "wake_by_ref" -> "wake_by_ref"
      [] op = "sync_pend_by_ref" -> "pend"
      [] op = "sync_wake_by_ref" -> "wake"
      [] op = "send_pend_by_ref" -> "pend"
      [] op = "send_wake_by_ref" -> "wake"
      [] op \in {"send_pend", "sync_pend"} -> "pend"
      [] op \in {"send_wake", "sync_wake"} -> "wake"
      [] OTHER -> "none"

\* The first statement of a method of WakerQueue.
Entry(body) ==
    CASE body = "pend" -> "check"
      [] body = "wake" -> "take"
      [] body = "wake_by_ref" -> "iter"

\* The statement after the waker's invocation has returned.
AfterInvoke(body) == IF body = "pend" THEN "store" ELSE "ret"

WholeCall(s, f, outcome) ==
    CASE BodyOf(f.op) = "pend" -> PendWhole(s, f.arg[1], outcome)
      [] BodyOf(f.op) = "wake" -> WakeWhole(s)
      [] BodyOf(f.op) = "wake_by_ref" -> WakeByRefWhole(s)

NewFrame(op, arg) ==
    [op |-> op,
     pc |-> IF op \in SyncOps THEN "lock"
            ELSE IF op \in SendOps THEN "inner_mut"
            ELSE IF op \in SendMutOps \cup SyncMutOps THEN "get_mut"
            ELSE IF op \in RoundTripOps THEN "new"
            ELSE Entry(BodyOf(op)),
     arg |-> arg,          \* the &Waker passed in, None for the wake calls
     w |-> None,           \* the local w of `if let Some(w) = self.waker.take()`
     guard |-> FALSE,      \* this call holds the MutexGuard
     cause |-> "none",     \* why the call unwinds: "waker" or "poison"
     cell |-> None,        \* the container a round trip has built
     pre |-> Snapshot]     \* history: the state when the method body began

Running(t) == stack[t] # <<>>
Top(t) == stack[t][Len(stack[t])]
At(t, pc) == Running(t) /\ Top(t).pc = pc
InBody(t, body) == Running(t) /\ BodyOf(Top(t).op) = body
SetTop(t, f) == [stack EXCEPT ![t][Len(stack[t])] = f]
Push(t, f) == [stack EXCEPT ![t] = Append(@, f)]
Quiescent == \A t \in Threads : ~Running(t)

Init ==
    /\ waker = None
    /\ lock = None
    /\ poisoned = FALSE
    /\ stack = [t \in Threads |-> <<>>]
    /\ woken = NoWakes
    /\ ncalls = 0
    /\ stored = [h \in Handles |-> 0]
    /\ lastPend = None
    /\ run = [op |-> "none", n |-> 0, pre |-> [waker |-> None, woken |-> NoWakes],
              hist |-> <<>>]
    /\ lin = [waker |-> None, woken |-> NoWakes]

\* A call begins: its frame is pushed.
Call(t, op, arg) ==
    /\ ~Running(t)
    /\ ncalls < (IF op \in SyncOps THEN MaxSyncCalls ELSE MaxCalls)
    /\ ncalls' = ncalls + 1
    /\ stack' = Push(t, NewFrame(op, arg))
    /\ UNCHANGED <<waker, lock, poisoned, woken, stored, lastPend, run, lin>>

\* ------------------------------------------------------------- WakerQueue
\* Mutant of PendCheck: no coalescing, every pend goes on to evict and store.
PendCheck_NoCoalesce(t) ==
    /\ At(t, "check")
    /\ stack' = SetTop(t, [Top(t) EXCEPT !.pc = "take"])
    /\ UNCHANGED <<waker, lock, poisoned, woken, ncalls, stored, lastPend, run, lin>>

\* pend, `for w in &self.waker { if w.will_wake(waker) { return } }`
PendCheck(t) ==
    /\ At(t, "check")
    /\ stack' = SetTop(t, [Top(t) EXCEPT !.pc =
            IF waker # None /\ will_wake(waker[1], Top(t).arg[1])
            THEN "ret" ELSE "take"])
    /\ UNCHANGED <<waker, lock, poisoned, woken, ncalls, stored, lastPend, run, lin>>

\* Mutant of PendTake: the stored waker is cleared without being woken.
PendTake_Drop(t) ==
    /\ At(t, "take") /\ InBody(t, "pend")
    /\ waker' = None
    /\ stack' = SetTop(t, [Top(t) EXCEPT !.pc = "store"])
    /\ UNCHANGED <<lock, poisoned, woken, ncalls, stored, lastPend, run, lin>>

\* Mutant of PendTake: `mem::replace(&mut self.waker, Some(waker.clone()))`,
\* the new waker is stored before the old one is woken.
PendTake_Replace(t) ==
    /\ At(t, "take") /\ InBody(t, "pend")
    /\ waker' = Some(Clone(Top(t).arg[1]))
    /\ stored' = [stored EXCEPT ![Clone(Top(t).arg[1])] = @ + 1]
    /\ stack' = SetTop(t, [Top(t) EXCEPT !.w = waker,
            !.pc = IF waker # None THEN "invoke" ELSE "ret"])
    /\ UNCHANGED <<lock, poisoned, woken, ncalls, lastPend, run, lin>>

\* pend, `if let Some(w) = self.waker.take()`
PendTake(t) ==
    /\ At(t, "take") /\ InBody(t, "pend")
    /\ waker' = None
    /\ stack' = SetTop(t, [Top(t) EXCEPT !.w = waker,
            !.pc = IF waker # None THEN "invoke" ELSE "store"])
    /\ UNCHANGED <<lock, poisoned, woken, ncalls, stored, lastPend, run, lin>>

\* Mutant of PendEvict: the evicted waker is woken by reference.
PendEvict_ByRef(t) ==
    /\ At(t, "invoke") /\ InBody(t, "pend")
    /\ woken' = WakeByRef(woken, Top(t).w)
    /\ stack' = SetTop(t, [Top(t) EXCEPT !.pc = "invoking"])
    /\ UNCHANGED <<waker, lock, poisoned, ncalls, stored, lastPend, run, lin>>

\* pend, `w.wake()` begins: the evicted waker is invoked, by value.
PendEvict(t) ==
    /\ At(t, "invoke") /\ InBody(t, "pend")
    /\ woken' = WakeByValue(woken, Top(t).w)
    /\ stack' = SetTop(t, [Top(t) EXCEPT !.pc = "invoking"])
    /\ UNCHANGED <<waker, lock, poisoned, ncalls, stored, lastPend, run, lin>>

\* Mutant of PendStore: the evicted waker is put back instead of the new one.
PendStore_KeepOld(t) ==
    /\ At(t, "store")
    /\ waker' = IF Top(t).w # None THEN Top(t).w ELSE Some(Clone(Top(t).arg[1]))
    /\ stored' = [stored EXCEPT ![waker'[1]] = @ + 1]
    /\ stack' = SetTop(t, [Top(t) EXCEPT !.pc = "ret"])
    /\ UNCHANGED <<lock, poisoned, woken, ncalls, lastPend, run, lin>>

\* pend, `self.waker = Some(waker.clone())`
PendStore(t) ==
    /\ At(t, "store")
    /\ waker' = Some(Clone(Top(t).arg[1]))
    /\ stored' = [stored EXCEPT ![Clone(Top(t).arg[1])] = @ + 1]
    /\ stack' = SetTop(t, [Top(t) EXCEPT !.pc = "ret"])
    /\ UNCHANGED <<lock, poisoned, woken, ncalls, lastPend, run, lin>>

\* Mutant of WakeTake: `self.waker.take().unwrap().wake()`, which fails on
\* an empty slot.
WakeTake_Unwrap(t) ==
    /\ At(t, "take") /\ InBody(t, "wake")
    /\ waker' = None
    /\ stack' = SetTop(t, [Top(t) EXCEPT !.w = waker,
            !.pc = IF waker # None THEN "invoke" ELSE "unwind"])
    /\ UNCHANGED <<lock, poisoned, woken, ncalls, stored, lastPend, run, lin>>

\* Mutant of WakeTake: the waker is read and left in the slot.
WakeTake_Keep(t) ==
    /\ At(t, "take") /\ InBody(t, "wake")
    /\ stack' = SetTop(t, [Top(t) EXCEPT !.w = waker,
            !.pc = IF waker # None THEN "invoke" ELSE "ret"])
    /\ UNCHANGED <<waker, lock, poisoned, woken, ncalls, stored, lastPend, run, lin>>

\* wake, `if let Some(w) = self.waker.take()`
WakeTake(t) ==
    /\ At(t, "take") /\ InBody(t, "wake")
    /\ waker' = None
    /\ stack' = SetTop(t, [Top(t) EXCEPT !.w = waker,
            !.pc = IF waker # None THEN "invoke" ELSE "ret"])
    /\ UNCHANGED <<lock, poisoned, woken, ncalls, stored, lastPend, run, lin>>

\* wake, `w.wake()` begins.
WakeInvoke(t) ==
    /\ At(t, "invoke") /\ InBody(t, "wake")
    /\ woken' = WakeByValue(woken, Top(t).w)
    /\ stack' = SetTop(t, [Top(t) EXCEPT !.pc = "invoking"])
    /\ UNCHANGED <<waker, lock, poisoned, ncalls, stored, lastPend, run, lin>>

\* Mutant of WakeByRefIter: the waker is taken out and woken by value.
WakeByRefIter_Consume(t) ==
    /\ At(t, "iter")
    /\ waker' = None
    /\ woken' = WakeByValue(woken, waker)
    /\ stack' = SetTop(t, [Top(t) EXCEPT !.pc =
            IF waker # None THEN "invoking" ELSE "ret"])
    /\ UNCHANGED <<lock, poisoned, ncalls, stored, lastPend, run, lin>>

\* wake_by_ref, `for w in &self.waker { w.wake_by_ref() }`: the invocation
\* begins, or the Option is empty and the loop ends.
WakeByRefIter(t) ==
    /\ At(t, "iter")
    /\ woken' = WakeByRef(woken, waker)
    /\ stack' = SetTop(t, [Top(t) EXCEPT !.pc =
            IF waker # None THEN "invoking" ELSE "ret"])
    /\ UNCHANGED <<waker, lock, poisoned, ncalls, stored, lastPend, run, lin>>

\* The waker's invocation returns to the method that made it.
InvokeReturn(t) ==
    /\ At(t, "invoking")
    /\ stack' = SetTop(t, [Top(t) EXCEPT !.pc = AfterInvoke(BodyOf(Top(t).op))])
    /\ UNCHANGED <<waker, lock, poisoned, woken, ncalls, stored, lastPend, run, lin>>

\* The waker's invocation panics: the method unwinds.
InvokePanic(t) ==
    /\ At(t, "invoking")
    /\ stack' = SetTop(t, [Top(t) EXCEPT !.pc = "unwind", !.cause = "waker"])
    /\ UNCHANGED <<waker, lock, poisoned, woken, ncalls, stored, lastPend, run, lin>>

\* The frames below the top one; when the top one unwinds, the panic comes
\* out of the waker invocation its caller, if any, is in.
Popped(t) == SubSeq(stack[t], 1, Len(stack[t]) - 1)
PoppedUnwinding(t) ==
    IF Popped(t) = <<>> THEN <<>>
    ELSE [Popped(t) EXCEPT ![Len(Popped(t))] =
            [@ EXCEPT !.pc = "unwind", !.cause = "waker"]]

\* History of the calls made directly on the WakerQueue by its one owner.
RunAfter(f) ==
    IF f.op \notin QueueOps THEN run
    ELSE IF run.op = f.op
         THEN [run EXCEPT !.n = @ + 1,
                          !.hist = Append(@, [op |-> f.op, arg |-> f.arg])]
    ELSE [op |-> f.op, n |-> 1, pre |-> f.pre,
          hist |-> Append(run.hist, [op |-> f.op, arg |-> f.arg])]
LastPendAfter(f) ==
    IF f.op = "pend" THEN f.arg
    ELSE IF f.op = "wake" THEN None
    ELSE lastPend

\* Mutant of Return: the guard is leaked (mem::forget) and the Mutex stays
\* locked after the call has returned.
Return_KeepLock(t) ==
    /\ At(t, "ret")
    /\ lin' = IF Top(t).guard THEN WholeCall(lin, Top(t), "ok") ELSE lin
    /\ run' = RunAfter(Top(t))
    /\ lastPend' = LastPendAfter(Top(t))
    /\ stack' = [stack EXCEPT ![t] = Popped(t)]
    /\ UNCHANGED <<waker, lock, poisoned, woken, ncalls, stored>>

\* The method returns; the MutexGuard of `self.wakers.lock().unwrap()`, a
\* temporary of the statement, is dropped and the Mutex unlocked.
Return(t) ==
    /\ At(t, "ret")
    /\ lock' = IF Top(t).guard THEN None ELSE lock
    /\ lin' = IF Top(t).guard THEN WholeCall(lin, Top(t), "ok") ELSE lin
    /\ run' = RunAfter(Top(t))
    /\ lastPend' = LastPendAfter(Top(t))
    /\ stack' = [stack EXCEPT ![t] = Popped(t)]
    /\ UNCHANGED <<waker, poisoned, woken, ncalls, stored>>

\* Mutant of Unwind: the guard is leaked when the call panics, and the
\* Mutex stays locked.
Unwind_KeepLock(t) ==
    /\ At(t, "unwind")
    /\ lin' = IF Top(t).guard /\ Top(t).cause = "waker"
              THEN WholeCall(lin, Top(t), "panic") ELSE lin
    /\ stack' = [stack EXCEPT ![t] = PoppedUnwinding(t)]
    /\ UNCHANGED <<waker, lock, poisoned, woken, ncalls, stored, lastPend, run>>

\* The call unwinds; a MutexGuard dropped while panicking poisons the Mutex
\* and unlocks it.
Unwind(t) ==
    /\ At(t, "unwind")
    /\ lock' = IF Top(t).guard THEN None ELSE lock
    /\ poisoned' = (poisoned \/ Top(t).guard)
    /\ lin' = IF Top(t).guard /\ Top(t).cause = "waker"
              THEN WholeCall(lin, Top(t), "panic") ELSE lin
    /\ stack' = [stack EXCEPT ![t] = PoppedUnwinding(t)]
    /\ UNCHANGED <<waker, woken, ncalls, stored, lastPend, run>>

\* ------------------------------------------------------------- SyncWakers
\* Mutant of SyncLock: a re-entrant mutex, which the thread that holds it
\* may lock again.
SyncLock_Reentrant(t) ==
    /\ At(t, "lock")
    /\ lock \in {None, Some(t)}
    /\ lock' = Some(t)
    /\ stack' = SetTop(t, [Top(t) EXCEPT !.pc = "unwrap", !.guard = TRUE])
    /\ UNCHANGED <<waker, poisoned, woken, ncalls, stored, lastPend, run, lin>>

\* Mutant of SyncLock: the guard is handed out without waiting for the Mutex.
SyncLock_NoExclusion(t) ==
    /\ At(t, "lock")
    /\ lock' = Some(t)
    /\ stack' = SetTop(t, [Top(t) EXCEPT !.pc = "unwrap", !.guard = TRUE])
    /\ UNCHANGED <<waker, poisoned, woken, ncalls, stored, lastPend, run, lin>>

\* `self.wakers.lock()`: blocks until the Mutex is free, then holds it.
SyncLock(t) ==
    /\ At(t, "lock")
    /\ lock = None
    /\ lock' = Some(t)
    /\ stack' = SetTop(t, [Top(t) EXCEPT !.pc = "unwrap", !.guard = TRUE])
    /\ UNCHANGED <<waker, poisoned, woken, ncalls, stored, lastPend, run, lin>>

\* Mutant of SyncUnwrap: the poison is ignored and the guard taken out of
\* the error.
SyncUnwrap_IgnorePoison(t) ==
    /\ At(t, "unwrap")
    /\ stack' = SetTop(t,
            [Top(t) EXCEPT !.pc = Entry(BodyOf(Top(t).op)), !.pre = Snapshot])
    /\ UNCHANGED <<waker, lock, poisoned, woken, ncalls, stored, lastPend, run, lin>>

\* `.unwrap()` of the LockResult: a poisoned Mutex made it Err and the call
\* panics; otherwise the inner store's method begins.
SyncUnwrap(t) ==
    /\ At(t, "unwrap")
    /\ stack' = SetTop(t,
            IF poisoned
            THEN [Top(t) EXCEPT !.pc = "unwind", !.cause = "poison"]
            ELSE [Top(t) EXCEPT !.pc = Entry(BodyOf(Top(t).op)), !.pre = Snapshot])
    /\ UNCHANGED <<waker, lock, poisoned, woken, ncalls, stored, lastPend, run, lin>>

\* ------------------------------------------------------------- the calls
CallPend(t, h) == Call(t, "pend", Some(h))
CallWake(t) == Call(t, "wake", None)
CallWakeByRef(t) == Call(t, "wake_by_ref", None)
CallSyncPendByRef(t, h) == Call(t, "sync_pend_by_ref", Some(h))
CallSyncWakeByRef(t) == Call(t, "sync_wake_by_ref", None)

\* One owner drives a bare WakerQueue; its wakers return.
Next ==
    \/ \E h \in Handles : CallPend(Owner, h)
    \/ CallWake(Owner)
    \/ CallWakeByRef(Owner)
    \/ PendCheck(Owner)
    \/ PendTake(Owner)
    \/ PendEvict(Owner)
    \/ PendStore(Owner)
    \/ WakeTake(Owner)
    \/ WakeInvoke(Owner)
    \/ WakeByRefIter(Owner)
    \/ InvokeReturn(Owner)
    \/ Return(Owner)

Spec == Init /\ [][Next]_vars

\* Threads share one SyncWakers<WakerQueue>; a waker may panic.
NextSync ==
    \E t \in Threads :
        \/ \E h \in Handles : CallSyncPendByRef(t, h)
        \/ CallSyncWakeByRef(t)
        \/ SyncLock(t)
        \/ SyncUnwrap(t)
        \/ PendCheck(t)
        \/ PendTake(t)
        \/ PendEvict(t)
        \/ PendStore(t)
        \/ WakeTake(t)
        \/ WakeInvoke(t)
        \/ InvokeReturn(t)
        \/ InvokePanic(t)
        \/ Return(t)
        \/ Unwind(t)

SpecSync == Init /\ [][NextSync]_vars

\* ------------------------------------------------------------- properties
Frames == UNION {{<<t, i>> : i \in 1..Len(stack[t])} : t \in Threads}
InSlot(h) == IF waker = Some(h) THEN 1 ELSE 0
\* Handles taken out of the slot whose wake() has not begun yet.
Held(h) ==
    Cardinality({x \in Frames :
        stack[x[1]][x[2]].w = Some(h) /\ stack[x[1]][x[2]].pc = "invoke"})

\* C1: no waiter is silently dropped.  Every clone pend stored is in the
\* slot, in the hands of the call that took it out and is about to wake it,
\* or was woken by value; so between calls every handle that was stored and
\* is not stored now has been invoked at least once.
NoSilentDrop ==
    /\ \A h \in Handles : stored[h] <= InSlot(h) + Held(h) + woken[h].val
    /\ Quiescent =>
         \A h \in Handles :
            (stored[h] > 0 /\ waker # Some(h)) => woken[h].val + woken[h].ref >= 1

\* A handle was stored twice and left the slot twice, each time woken.
NoSilentDropWitness ==
    /\ Quiescent
    /\ \E h, g \in Handles :
          /\ ~will_wake(h, g)
          /\ waker = Some(g)
          /\ stored[h] = 2
          /\ woken[h].val = 2

\* C2: the slot holds at most one handle, and between calls, once a pend
\* has returned and no wake was called since, it holds a handle for the
\* task of the last pend's argument.
SlotHoldsLastRegistrant ==
    /\ Len(waker) <= 1
    /\ (Quiescent /\ lastPend # None) =>
          (waker # None /\ will_wake(waker[1], lastPend[1]))

\* After a coalesced pend and a wake_by_ref, the slot holds another Waker
\* object of the last registrant's task.
SlotHoldsLastRegistrantWitness ==
    /\ Quiescent
    /\ lastPend # None
    /\ waker # None
    /\ waker # lastPend
    /\ will_wake(waker[1], lastPend[1])
    /\ run.op = "wake_by_ref"
    /\ \E h \in Handles : ~will_wake(h, waker[1]) /\ woken[h].val > 0

PendReturns(t) == At(t, "ret") /\ Top(t).op = "pend"

\* C3 (P2): when pend returns from a slot that held h1 and was given a
\* handle for another task, h1 has been woken exactly once, by value, no
\* other handle has been invoked, and the slot holds the clone of the
\* argument.
EvictionWakes ==
    \A t \in Threads :
        (/\ PendReturns(t)
         /\ Top(t).pre.waker # None
         /\ ~will_wake(Top(t).pre.waker[1], Top(t).arg[1]))
        => /\ woken = WakeByValue(Top(t).pre.woken, Top(t).pre.waker)
           /\ waker = Some(Clone(Top(t).arg[1]))

EvictionWakesWitness ==
    \E t \in Threads :
        /\ PendReturns(t)
        /\ Top(t).pre.waker # None
        /\ ~will_wake(Top(t).pre.waker[1], Top(t).arg[1])
        /\ woken[Top(t).pre.waker[1]].val = Top(t).pre.woken[Top(t).pre.waker[1]].val + 1

\* C4 (P1): when pend returns from a slot that held a handle for the task
\* of its argument, no handle has been invoked and the slot is as it was.
Coalescing ==
    \A t \in Threads :
        (/\ PendReturns(t)
         /\ Top(t).pre.waker # None
         /\ will_wake(Top(t).pre.waker[1], Top(t).arg[1]))
        => /\ woken = Top(t).pre.woken
           /\ waker = Top(t).pre.waker

\* A pend returns that was given another Waker object of the stored task.
CoalescingWitness ==
    \E t \in Threads :
        /\ PendReturns(t)
        /\ Top(t).pre.waker # None
        /\ will_wake(Top(t).pre.waker[1], Top(t).arg[1])
        /\ Top(t).pre.waker # Top(t).arg
        /\ run.op = "pend"

\* C5 (P3): when wake returns the slot is empty and the handle it held, if
\* any, has been woken exactly once by value; after any number of wakes in
\* a row the invocations are those of the first.
FireConsumeIdempotent ==
    /\ \A t \in Threads :
          (At(t, "ret") /\ Top(t).op = "wake")
          => /\ waker = None
             /\ woken = WakeByValue(Top(t).pre.woken, Top(t).pre.waker)
    /\ (Quiescent /\ run.op = "wake")
          => /\ waker = None
             /\ woken = WakeByValue(run.pre.woken, run.pre.waker)

\* pend(h); wake(); wake() has run.
FireConsumeIdempotentWitness ==
    /\ Quiescent
    /\ run.op = "wake"
    /\ run.n = 2
    /\ run.pre.waker # None
    /\ woken[run.pre.waker[1]].val = 1

\* C6 (P4): when wake_by_ref returns from a slot that held h, h has been
\* woken once by reference and the slot holds h; after n wake_by_ref in a
\* row h has been woken n times by reference and is still in the slot.
FireSharedRepeatable ==
    /\ \A t \in Threads :
          (At(t, "ret") /\ Top(t).op = "wake_by_ref" /\ Top(t).pre.waker # None)
          => /\ waker = Top(t).pre.waker
             /\ woken = WakeByRef(Top(t).pre.woken, Top(t).pre.waker)
    /\ (Quiescent /\ run.op = "wake_by_ref" /\ run.pre.waker # None)
          => /\ waker = run.pre.waker
             /\ woken = [h \in Handles |->
                    IF h = run.pre.waker[1]
                    THEN [run.pre.woken[h] EXCEPT !.ref = @ + run.n]
                    ELSE run.pre.woken[h]]

\* pend(h); wake_by_ref(); wake_by_ref() has run.
FireSharedRepeatableWitness ==
    /\ Quiescent
    /\ run.op = "wake_by_ref"
    /\ run.n = 2
    /\ run.pre.waker # None
    /\ woken[run.pre.waker[1]].ref = 2

\* C7 (P5): a wake or wake_by_ref that begins on an empty slot goes
\* straight to its return: it invokes nothing, does not unwind, and leaves
\* the slot empty.
EmptyNoOps ==
    \A t \in Threads :
        (/\ Running(t)
         /\ Top(t).op \in {"wake", "wake_by_ref"}
         /\ Top(t).pre.waker = None)
        => /\ Top(t).pc \in {Entry(BodyOf(Top(t).op)), "ret"}
           /\ waker = None
           /\ woken = Top(t).pre.woken

\* A wake_by_ref returns from an empty slot, after a wake on an empty slot.
EmptyNoOpsWitness ==
    /\ At(Owner, "ret")
    /\ Top(Owner).op = "wake_by_ref"
    /\ Top(Owner).pre.waker = None
    /\ run.op = "wake"
    /\ run.pre.waker = None

\* C8: wake_by_ref on a SyncWakers around a slot holding h wakes h and
\* leaves h in the slot.  Stated for the state in which the call returns,
\* still holding the lock it took before reading the slot.
AdapterFireByRefKeepsHandle ==
    \A t \in Threads :
        (/\ At(t, "ret")
         /\ Top(t).op = "sync_wake_by_ref"
         /\ Top(t).pre.waker # None)
        => /\ waker = Top(t).pre.waker
           /\ woken = WakeByRef(Top(t).pre.woken, Top(t).pre.waker)

\* C9 (P7): every call on a SyncWakers that is past lock() holds the lock;
\* whenever the lock is free, and whenever a call has just taken it, the
\* slot and the invocations made so far are those of the calls executed
\* whole, one after another, in the order they took the lock.
LockLinearizable ==
    /\ \A t \in Threads :
          (Running(t) /\ Top(t).pc # "lock") => (Top(t).guard /\ lock = Some(t))
    /\ lock = None => Snapshot = lin
    /\ \A t \in Threads : At(t, "unwrap") => Snapshot = lin

\* One thread is inside pend, the evicted waker taken out and being woken
\* and the new one not stored yet, while another waits for the lock.
LockLinearizableWitness ==
    \E t, u \in Threads :
        /\ At(t, "invoking") /\ Top(t).op = "sync_pend_by_ref"
        /\ At(u, "lock")
        /\ waker = None
        /\ lin.waker # None
        /\ woken # lin.woken

BeforeBody == {"lock", "unwrap", "unwind"}

\* C10: once the Mutex is poisoned no step reads or changes the slot or
\* invokes a handle, and no call on the SyncWakers gets past unwrap():
\* each of them unwinds.
PoisonUnrecoverable ==
    [][poisoned =>
        /\ waker' = waker
        /\ woken' = woken
        /\ stored' = stored
        /\ \A t \in Threads :
              stack'[t] # <<>> => stack'[t][Len(stack'[t])].pc \in BeforeBody]_vars

\* A waker panicked under the lock during an eviction, and a later call,
\* having found the Mutex poisoned, unwinds.
PoisonUnrecoverableWitness ==
    \E t \in Threads :
        /\ poisoned
        /\ At(t, "unwind") /\ Top(t).cause = "poison"
        /\ \E h \in Handles : stored[h] > 0 /\ woken[h].val > 0
        /\ lock = Some(t)

\* ------------------------------------------------------------- re-entrancy
\* The waker being invoked calls a method of the container it is stored in:
\* the call's frame goes on top of the frame that is invoking the waker.
Reenter(t, op, arg) ==
    /\ At(t, "invoking")
    /\ ncalls < (IF op \in SyncOps THEN MaxSyncCalls ELSE MaxCalls)
    /\ ncalls' = ncalls + 1
    /\ stack' = Push(t, NewFrame(op, arg))
    /\ UNCHANGED <<waker, lock, poisoned, woken, stored, lastPend, run, lin>>

ReenterSyncPendByRef(t, h) == Reenter(t, "sync_pend_by_ref", Some(h))
ReenterSyncWakeByRef(t) == Reenter(t, "sync_wake_by_ref", None)

\* Threads share one SyncWakers<WakerQueue> whose wakers may call back into
\* it.
NextSyncReentrant ==
    \E t \in Threads :
        \/ \E h \in Handles : CallSyncPendByRef(t, h)
        \/ CallSyncWakeByRef(t)
        \/ \E h \in Handles : ReenterSyncPendByRef(t, h)
        \/ ReenterSyncWakeByRef(t)
        \/ SyncLock(t)
        \/ SyncUnwrap(t)
        \/ PendCheck(t)
        \/ PendTake(t)
        \/ PendEvict(t)
        \/ PendStore(t)
        \/ WakeTake(t)
        \/ WakeInvoke(t)
        \/ InvokeReturn(t)
        \/ Return(t)

SpecSyncReentrant == Init /\ [][NextSyncReentrant]_vars

\* Thread t is in a call on the SyncWakers made from inside a waker that
\* another call of t, holding the lock, is invoking.
Reentered(t) ==
    /\ Len(stack[t]) >= 2
    /\ Top(t).op \in SyncOps
    /\ \E i \in 1..(Len(stack[t]) - 1) :
          stack[t][i].guard /\ stack[t][i].pc = "invoking"

\* C11: a call on a SyncWakers made from inside a waker invoked under its
\* lock waits at lock() for the Mutex its own thread holds: from then on
\* neither the inner nor the outer call takes a step, so neither returns,
\* and the Mutex stays held.
ReentrantDeadlock ==
    [][\A t \in Threads :
          Reentered(t) =>
             /\ Top(t).pc = "lock"
             /\ stack'[t] = stack[t]
             /\ lock' = Some(t)]_vars

\* An eviction-wake inside pend_by_ref has called wake_by_ref on the same
\* SyncWakers, while the evicting call holds the lock.
ReentrantDeadlockWitness ==
    \E t \in Threads :
        /\ Reentered(t)
        /\ stack[t][1].op = "sync_pend_by_ref"
        /\ Top(t).op = "sync_wake_by_ref"
        /\ lock = Some(t)
        /\ waker = None

\* ------------------------------------------------------------- round trips
\* SendWakers::new: the store is moved into the UnsafeCell.
SendWakersNew(store) == [wakers |-> store]

\* SendWakers::into_inner: ptr::read of the cell's content; mem::forget
\* keeps the container from dropping the store it no longer owns.
SendWakersIntoInner(a) == [res |-> a.wakers, dropped |-> None, panic |-> FALSE]

\* SyncWakers::new: the store is moved into a fresh Mutex.
SyncWakersNew(store) == [wakers |-> store, poison |-> FALSE]

\* Mutant of SyncWakersIntoInner: a fresh default store is returned and the
\* wrapped one dropped.
SyncWakersIntoInner_Default(a) ==
    [res |-> None, dropped |-> a.wakers, panic |-> FALSE]

\* SyncWakers::into_inner: Mutex::into_inner().unwrap(); a poisoned Mutex
\* makes it Err, unwrap panics and the store inside the error is dropped.
SyncWakersIntoInner(a) ==
    IF a.poison
    THEN [res |-> None, dropped |-> a.wakers, panic |-> TRUE]
    ELSE [res |-> a.wakers, dropped |-> None, panic |-> FALSE]

CallSendRoundTrip(t) == Call(t, "send_round_trip", None)
CallSyncRoundTrip(t) == Call(t, "sync_round_trip", None)

\* `let a = SendWakers::new(store)` / `SyncWakers::new(store)`: the owner's
\* WakerQueue is moved into the container.
ContainerNew(t) ==
    /\ At(t, "new")
    /\ waker' = None
    /\ stack' = SetTop(t, [Top(t) EXCEPT !.pc = "into_inner",
            !.cell = IF Top(t).op = "send_round_trip"
                     THEN Some(SendWakersNew(waker))
                     ELSE Some(SyncWakersNew(waker))])
    /\ UNCHANGED <<lock, poisoned, woken, ncalls, stored, lastPend, run, lin>>

IntoInnerOf(f) ==
    IF f.op = "send_round_trip"
    THEN SendWakersIntoInner(f.cell[1])
    ELSE SyncWakersIntoInner(f.cell[1])

\* `a.into_inner()`: the container is consumed and the owner has the
\* WakerQueue again.
ContainerIntoInner(t) ==
    /\ At(t, "into_inner")
    /\ waker' = IntoInnerOf(Top(t)).res
    /\ stack' = SetTop(t, [Top(t) EXCEPT
            !.pc = IF IntoInnerOf(Top(t)).panic THEN "unwind" ELSE "ret",
            !.w = IntoInnerOf(Top(t)).dropped,
            !.cell = None])
    /\ UNCHANGED <<lock, poisoned, woken, ncalls, stored, lastPend, run, lin>>

\* One owner drives a bare WakerQueue and, between calls, moves it into a
\* container and back out.
NextRoundTrip ==
    \/ \E h \in Handles : CallPend(Owner, h)
    \/ CallWake(Owner)
    \/ CallWakeByRef(Owner)
    \/ CallSendRoundTrip(Owner)
    \/ CallSyncRoundTrip(Owner)
    \/ ContainerNew(Owner)
    \/ ContainerIntoInner(Owner)
    \/ PendCheck(Owner)
    \/ PendTake(Owner)
    \/ PendEvict(Owner)
    \/ PendStore(Owner)
    \/ WakeTake(Owner)
    \/ WakeInvoke(Owner)
    \/ WakeByRefIter(Owner)
    \/ InvokeReturn(Owner)
    \/ Return(Owner)

SpecRoundTrip == Init /\ [][NextRoundTrip]_vars

\* C12 (P6): when X::new(store).into_inner() has run, for X either
\* container, the owner's store is the one it began with, no handle has
\* been invoked and none has been dropped; in between, the container holds
\* that store.
RoundTrip ==
    \A t \in Threads :
        (Running(t) /\ Top(t).op \in RoundTripOps) =>
           /\ Top(t).pc \in {"new", "into_inner", "ret"}
           /\ woken = Top(t).pre.woken
           /\ Top(t).pc = "into_inner" => Top(t).cell[1].wakers = Top(t).pre.waker
           /\ Top(t).pc = "ret" => (waker = Top(t).pre.waker /\ Top(t).w = None)

\* A SyncWakers round trip of an occupied store, whose handles had been
\* invoked before, has run.
RoundTripWitness ==
    /\ At(Owner, "ret")
    /\ Top(Owner).op = "sync_round_trip"
    /\ Top(Owner).pre.waker # None
    /\ waker = Top(Owner).pre.waker
    /\ woken # NoWakes

\* ------------------------------------------------------------- the scenario
\* Register(a); Register(b); FireShared(); FireConsume(); FireConsume()
Scenario(a, b) ==
    << [op |-> "pend", arg |-> Some(a)],
       [op |-> "pend", arg |-> Some(b)],
       [op |-> "wake_by_ref", arg |-> None],
       [op |-> "wake", arg |-> None],
       [op |-> "wake", arg |-> None] >>

\* The invocations when a was woken va times by value and b vb times by
\* value and rb times by reference, and nothing else was invoked.
Fired(a, va, b, vb, rb) ==
    [h \in Handles |->
        IF h = a THEN [val |-> va, ref |-> 0]
        ELSE IF h = b THEN [val |-> vb, ref |-> rb]
        ELSE [val |-> 0, ref |-> 0]]

\* The slot and the invocations the scenario is said to have after k calls.
ScenarioState(a, b, k) ==
    CASE k = 0 -> [waker |-> None, woken |-> NoWakes]
      [] k = 1 -> [waker |-> Some(a), woken |-> NoWakes]
      [] k = 2 -> [waker |-> Some(b), woken |-> Fired(a, 1, b, 0, 0)]
      [] k = 3 -> [waker |-> Some(b), woken |-> Fired(a, 1, b, 0, 1)]
      [] k = 4 -> [waker |-> None, woken |-> Fired(a, 1, b, 1, 1)]
      [] k = 5 -> [waker |-> None, woken |-> Fired(a, 1, b, 1, 1)]

\* C13: from the empty slot, with a and b for different tasks, after each
\* call of pend(a); pend(b); wake_by_ref(); wake(); wake() the slot and
\* the invocations are: Occupied(a), none; Occupied(b), a once;
\* Occupied(b), b once; Empty, b twice; Empty, unchanged.
ConcreteScenario ==
    \A a, b \in Handles :
        \A k \in 0..5 :
            (/\ ~will_wake(a, b)
             /\ Quiescent
             /\ run.hist = SubSeq(Scenario(a, b), 1, k))
            => Snapshot = ScenarioState(a, b, k)

\* The five calls of the scenario have run.
ConcreteScenarioWitness ==
    /\ Quiescent
    /\ \E a, b \in Handles : ~will_wake(a, b) /\ run.hist = Scenario(a, b)
    /\ waker = None

\* ------------------------------------------------------------- the lock
\* C14: the Mutex of a SyncWakers is held only by a thread that is in a
\* call on it and has the guard: a call that has returned, or has unwound
\* after a panic or on finding the Mutex poisoned, has released it, and
\* when no call is in progress the lock is free.
LockReleasedOnExit ==
    /\ \A t \in Threads :
          lock = Some(t) => (Running(t) /\ \E x \in Frames :
                                x[1] = t /\ stack[t][x[2]].guard)
    /\ Quiescent => lock = None

\* A call has returned, a second one has unwound out of a panicking waker,
\* and a third waits for the lock, which is free.
LockReleasedOnExitWitness ==
    /\ poisoned
    /\ lock = None
    /\ \E h \in Handles : stored[h] > 0
    /\ \E t, u \in Threads : ~Running(t) /\ At(u, "lock")

\* ------------------------------------------------------------- SendWakers
\* Mutant of SendInnerMut: a borrow checked at run time, as a RefCell does;
\* a second &mut taken while a call is inside the store panics.
SendInnerMut_Checked(t) ==
    /\ At(t, "inner_mut")
    /\ stack' = SetTop(t,
            IF \E u \in Threads \ {t} : Running(u) /\ ~At(u, "inner_mut")
            THEN [Top(t) EXCEPT !.pc = "unwind", !.cause = "borrow"]
            ELSE [Top(t) EXCEPT !.pc = Entry(BodyOf(Top(t).op)), !.pre = Snapshot])
    /\ UNCHANGED <<waker, lock, poisoned, woken, ncalls, stored, lastPend, run, lin>>

\* `unsafe { self.inner_mut() }` in pend_by_ref / wake_by_ref: a &mut to the
\* store out of a shared reference to the container, with no check.
SendInnerMut(t) ==
    /\ At(t, "inner_mut")
    /\ stack' = SetTop(t,
            [Top(t) EXCEPT !.pc = Entry(BodyOf(Top(t).op)), !.pre = Snapshot])
    /\ UNCHANGED <<waker, lock, poisoned, woken, ncalls, stored, lastPend, run, lin>>

\* `self.get_mut()` in SendWakers::pend / wake.
SendGetMut(t) ==
    /\ At(t, "get_mut") /\ Top(t).op \in SendMutOps
    /\ stack' = SetTop(t,
            [Top(t) EXCEPT !.pc = Entry(BodyOf(Top(t).op)), !.pre = Snapshot])
    /\ UNCHANGED <<waker, lock, poisoned, woken, ncalls, stored, lastPend, run, lin>>

\* `self.get_mut()` in SyncWakers::pend / wake: `self.wakers.get_mut()
\* .unwrap()`, which takes no lock and panics on a poisoned Mutex.
SyncGetMut(t) ==
    /\ At(t, "get_mut") /\ Top(t).op \in SyncMutOps
    /\ stack' = SetTop(t,
            IF poisoned
            THEN [Top(t) EXCEPT !.pc = "unwind", !.cause = "poison"]
            ELSE [Top(t) EXCEPT !.pc = Entry(BodyOf(Top(t).op)), !.pre = Snapshot])
    /\ UNCHANGED <<waker, lock, poisoned, woken, ncalls, stored, lastPend, run, lin>>

\* A call that needs the store to itself (&mut self, or the single owner
\* of a SendWakers): it begins when no other call is in progress.
ExclusiveCall(t, op, arg) == Quiescent /\ Call(t, op, arg)

\* One Waker per task.
FairHandles == {h \in Handles : h.tag = 1}
\* Under fair scheduling fewer calls are made.
FairCall(t, op, arg) == ncalls < MaxFairCalls /\ ExclusiveCall(t, op, arg)

\* A call on a shared &SyncWakers: it begins while no exclusive call runs.
SharedCall(t, op, arg) ==
    /\ \A u \in Threads : Running(u) => Top(u).op \in SyncOps
    /\ ncalls < MaxFairCalls
    /\ Call(t, op, arg)

\* The steps of thread t's call other than waiting for the Mutex.
Progress(t) ==
    \/ SyncUnwrap(t)
    \/ SendInnerMut(t)
    \/ PendCheck(t)
    \/ PendTake(t)
    \/ PendEvict(t)
    \/ PendStore(t)
    \/ WakeTake(t)
    \/ WakeInvoke(t)
    \/ WakeByRefIter(t)
    \/ InvokeReturn(t)
    \/ Return(t)

\* The store is used bare and through a SendWakers by its owner, and
\* through a shared SyncWakers by the threads; wakers return and do not
\* call back.
NextFair ==
    \/ \E h \in FairHandles : FairCall(Owner, "pend", Some(h))
    \/ FairCall(Owner, "wake", None)
    \/ FairCall(Owner, "wake_by_ref", None)
    \/ \E h \in FairHandles : FairCall(Owner, "send_pend_by_ref", Some(h))
    \/ FairCall(Owner, "send_wake_by_ref", None)
    \/ \E t \in Threads, h \in FairHandles : SharedCall(t, "sync_pend_by_ref", Some(h))
    \/ \E t \in Threads : SharedCall(t, "sync_wake_by_ref", None)
    \/ \E t \in Threads : SyncLock(t)
    \/ \E t \in Threads : Progress(t)

\* Every thread in a call keeps being scheduled, and a thread waiting for
\* the Mutex gets it if it is free again and again.
SpecFair ==
    /\ Init
    /\ [][NextFair]_vars
    /\ \A t \in Threads : WF_vars(Progress(t)) /\ SF_vars(SyncLock(t))

\* C15: every call in progress ends; and a call waits nowhere but at the
\* lock() of a SyncWakers: in every other state of a call, and so in every
\* state of a call on a WakerQueue or a SendWakers, its next step can be
\* taken.
Termination ==
    /\ \A t \in Threads : (Running(t) ~> ~Running(t))
    /\ [](\A t \in Threads :
            (Running(t) /\ ~At(t, "lock")) => ENABLED Progress(t))

\* One thread is registering a waker under the lock while another waits for
\* the lock.
TerminationWitness ==
    \E t, u \in Threads :
        /\ At(t, "store") /\ Top(t).op = "sync_pend_by_ref"
        /\ At(u, "lock")
        /\ lock = Some(t)

\* ------------------------------------------------- adapters, single owner
AdapterOps == SendOps \cup SendMutOps \cup SyncOps \cup SyncMutOps

\* The owner makes one adapter call at a time.
AdapterCall(op, arg) == ncalls < MaxSyncCalls /\ ExclusiveCall(Owner, op, arg)

\* The trait method of the bare WakerQueue that an adapter's method stands
\* for: pend for pend and pend_by_ref, wake for wake, wake_by_ref for
\* wake_by_ref.
Corresponding(f, s) ==
    IF f.op \in {"send_pend", "sync_pend", "send_pend_by_ref", "sync_pend_by_ref"}
    THEN PendWhole(s, f.arg[1], "ok")
    ELSE IF f.op \in {"send_wake", "sync_wake"}
    THEN WakeWhole(s)
    ELSE WakeByRefWhole(s)

\* A SendWakers and a SyncWakers over the same kind of store, each driven
\* by one owner through all four of its operations; no waker panics or
\* calls back.
NextAdapters ==
    \/ \E op \in {"send_pend", "sync_pend", "send_pend_by_ref", "sync_pend_by_ref"},
          h \in Handles : AdapterCall(op, Some(h))
    \/ \E op \in {"send_wake", "sync_wake", "send_wake_by_ref", "sync_wake_by_ref"} :
          AdapterCall(op, None)
    \/ SendInnerMut(Owner)
    \/ SendGetMut(Owner)
    \/ SyncGetMut(Owner)
    \/ SyncLock(Owner)
    \/ SyncUnwrap(Owner)
    \/ PendCheck(Owner)
    \/ PendTake(Owner)
    \/ PendEvict(Owner)
    \/ PendStore(Owner)
    \/ WakeTake(Owner)
    \/ WakeInvoke(Owner)
    \/ InvokeReturn(Owner)
    \/ Return(Owner)
SpecAdapters == Init /\ [][NextAdapters]_vars

\* C16: when a call on an adapter is about to return, the slot and the
\* invocation counts are those the corresponding operation of the bare
\* WakerQueue would have produced from the state in which the call's body
\* began.
AdaptersAddNoState ==
    \A t \in Threads :
        (At(t, "ret") /\ Top(t).op \in AdapterOps)
            => Snapshot = Corresponding(Top(t), Top(t).pre)

\* ------------------------------------- SendWakers shared by two owners
\* A call on a &SendWakers that other threads are using too.
RaceCall(t, op, arg) == ncalls < MaxRaceCalls /\ Call(t, op, arg)

\* `self.waker.take()` is mem::replace(&mut self.waker, None): a read of
\* the slot and a write of None.  Unsynchronised, another thread's access
\* can fall between the two.
RaceTakeRead(t) ==
    /\ At(t, "take")
    /\ stack' = SetTop(t, [Top(t) EXCEPT !.w = waker, !.pc = "clear"])
    /\ UNCHANGED <<waker, lock, poisoned, woken, ncalls, stored, lastPend, run, lin>>
RaceTakeClear(t) ==
    /\ At(t, "clear")
    /\ waker' = None
    /\ stack' = SetTop(t, [Top(t) EXCEPT !.pc =
            IF Top(t).w # None THEN "invoke"
            ELSE AfterInvoke(BodyOf(Top(t).op))])
    /\ UNCHANGED <<lock, poisoned, woken, ncalls, stored, lastPend, run, lin>>

\* One statement of thread t's call on the SendWakers.
RaceStep(t) ==
    \/ SendInnerMut(t)
    \/ PendCheck(t)
    \/ PendTake(t)
    \/ RaceTakeRead(t)
    \/ RaceTakeClear(t)
    \/ PendEvict(t)
    \/ PendStore(t)
    \/ WakeTake(t)
    \/ WakeInvoke(t)
    \/ InvokeReturn(t)
    \/ Return(t)

\* The threads call pend_by_ref and wake_by_ref on one SendWakers with no
\* synchronisation between them; the statements of their calls interleave.
NextSendRace ==
    \/ \E t \in Threads, h \in FairHandles : RaceCall(t, "send_pend_by_ref", Some(h))
    \/ \E t \in Threads : RaceCall(t, "send_wake_by_ref", None)
    \/ \E t \in Threads : RaceStep(t)
SpecSendRace == Init /\ [][NextSendRace]_vars

\* C17: concurrent use of a SendWakers is not detected.  No call panics or
\* waits: every call in progress, whatever the other threads are doing, has
\* a next statement it can execute, up to its return.
RaceUndetected ==
    \A t \in Threads :
        Running(t) => (Top(t).pc # "unwind" /\ ENABLED RaceStep(t))

\* Two concurrent calls have returned and left a state no serial order
\* gives: a handle was stored, is no longer in the slot, and was never
\* invoked.
RaceUndetectedWitness ==
    /\ Quiescent
    /\ \E h \in Handles :
          /\ stored[h] > 0
          /\ waker # Some(h)
          /\ woken[h].val + woken[h].ref = 0

\* ------------------------------------------------------ eviction ordering
\* The frames of pend that have taken a waker out of the slot.
Evicting == {x \in Frames : /\ BodyOf(stack[x[1]][x[2]].op) = "pend"
                            /\ stack[x[1]][x[2]].w # None}

\* C18: in a pend that evicts, the old waker is out of the slot before it
\* is invoked and the new one goes in only after the invocation has
\* returned: until the invocation has returned the slot is empty; the
\* invocation, by value, has been made exactly once when it is in progress
\* and after; and when pend returns the slot holds the clone of its
\* argument.
EvictionOrdering ==
    \A x \in Evicting :
        LET f == stack[x[1]][x[2]]
            old == f.w[1]
        IN  /\ ~will_wake(old, f.arg[1])
            /\ f.pre.waker = f.w
            /\ f.pc \in {"invoke", "invoking", "store", "ret"}
            /\ f.pc \in {"invoke", "invoking", "store"} => waker = None
            /\ f.pc = "invoke" => woken = f.pre.woken
            /\ f.pc \in {"invoking", "store", "ret"} =>
                   woken = WakeByValue(f.pre.woken, f.w)
            /\ f.pc = "ret" => waker = Some(Clone(f.arg[1]))

\* The evicted waker's invocation is in progress.
EvictionOrderingWitness ==
    \E x \in Evicting :
        /\ stack[x[1]][x[2]].pc = "invoking"
        /\ stack[x[1]][x[2]].op = "pend"
        /\ waker = None
        /\ woken[stack[x[1]][x[2]].w[1]].val = 1

\* ------------------------------------------- re-entrancy on a SendWakers
\* The owner calls the SendWakers between calls, and a waker that is being
\* invoked calls it from inside the call that invokes it.
SendCall(op, arg) == ncalls < MaxSyncCalls /\ Call(Owner, op, arg)
ReenterSend(op, arg) == ncalls < MaxSyncCalls /\ Reenter(Owner, op, arg)

\* One owner uses a SendWakers<WakerQueue> whose wakers may call back into
\* it; inner_mut() gives the inner call its own &mut to the store the outer
\* call is in the middle of changing.
NextSendReentrant ==
    \/ \E h \in Handles : SendCall("send_pend_by_ref", Some(h))
    \/ SendCall("send_wake_by_ref", None)
    \/ \E h \in Handles : ReenterSend("send_pend_by_ref", Some(h))
    \/ ReenterSend("send_wake_by_ref", None)
    \/ SendInnerMut(Owner)
    \/ PendCheck(Owner)
    \/ PendTake(Owner)
    \/ PendEvict(Owner)
    \/ PendStore(Owner)
    \/ WakeTake(Owner)
    \/ WakeInvoke(Owner)
    \/ InvokeReturn(Owner)
    \/ Return(Owner)
SpecSendReentrant == Init /\ [][NextSendReentrant]_vars

\* C19: with re-entrant calls on a SendWakers no waiter is silently
\* dropped: a handle that was stored and is neither in the slot nor in the
\* hands of a call about to wake it has been invoked at least once.
ReentrantNoSilentDrop ==
    \A h \in Handles :
        (stored[h] > 0 /\ InSlot(h) = 0 /\ Held(h) = 0)
            => woken[h].val + woken[h].ref >= 1

====
